---- MODULE Spec2Model ----
(***************************************************************************)
(* State-machine model of the vuzic/audio analysis pipeline:               *)
(*   WindowBuffer (buffer.rs), SlidingFFT (sfft.rs), Bucketer              *)
(*   (bucketer.rs), Features / FrequencySensor (frequency_sensor.rs) and   *)
(*   Analyzer (analyzer.rs).                                               *)
(*                                                                         *)
(* Rust vectors are 0-indexed; the sequences below are 1-indexed, so the   *)
(* element the code calls v[i] is v[i + 1] here.                           *)
(***************************************************************************)
EXTENDS Integers, Sequences, FiniteSets, TLC

VARIABLES
    wb,        \* the WindowBuffer: [buffer, index, capacity]
    fft_size,  \* SlidingFFT.fft_size of the owner of wb (0: a bare WindowBuffer)
    pushed,    \* history: the most recent samples pushed, oldest first (at most capacity)
    out,       \* the vector the last call read from wb (<<>> when it read none)
    features,  \* FrequencySensor.features: [amplitudes, index, length, size]
    calls,     \* history: the number of process calls made on the component under test
    written,   \* history: the amplitude vectors of the most recent calls, oldest first
    bucketer,  \* the Bucketer: [indices, output]
    bkargs,    \* the arguments Bucketer::new was called with
    spectrum,  \* the input of the last Bucketer::bucket call
    analyzer,  \* the Analyzer's own fields: [block_size, sample_count]
    boost,     \* BoostController: the current gain of its GainController
    ret,       \* what the last Analyzer::process returned: [some, snapshot]
    gc,        \* the GainController under test: [kind, values, err, filter, params]
    bf,        \* the BiasedFilter under test: [kind, values, params]
    sensor,    \* FrequencySensor: its filters, gain controller, buffers and flat Features vectors
    trace,     \* the collaborator calls the last call made, in order
    op,        \* the last call made: [name, arg]
    panicked   \* TRUE once a call has panicked (the run ends there)

bufVars == <<wb, fft_size, pushed, out>>
featVars == <<features, calls, written>>
bkVars == <<bucketer, bkargs, spectrum>>
anVars == <<analyzer, boost, ret>>
ctlVars == <<gc, bf, sensor>>
vars == <<wb, fft_size, pushed, out, features, calls, written,
          bucketer, bkargs, spectrum, analyzer, boost, ret,
          gc, bf, sensor, trace, op, panicked>>

----------------------------------------------------------------------------
(* Bounds *)

MaxCap == 3       \* largest WindowBuffer capacity explored
MaxSample == 2    \* samples pushed are 1..MaxSample (0 is the initial fill)

Samples == 1..MaxSample

\* all sequences over S of length 0..n
RECURSIVE SeqsUpTo(_, _)
SeqsUpTo(S, n) ==
    IF n = 0 THEN {<<>>}
    ELSE LET shorter == SeqsUpTo(S, n - 1)
         IN shorter \cup {Append(s, v) : s \in {t \in shorter : Len(t) = n - 1}, v \in S}

Min(a, b) == IF a < b THEN a ELSE b

\* the last n elements of s
LastN(s, n) == SubSeq(s, Len(s) - n + 1, Len(s))

----------------------------------------------------------------------------
(* WindowBuffer, buffer.rs *)

\* WindowBuffer::new
WindowBufferNew(capacity) ==
    [buffer |-> [i \in 1..capacity |-> 0], index |-> 0, capacity |-> capacity]

\* a size check that lets one sample too many through
PushRejectsLate(b, x) == Len(x) > b.capacity + 1

\* the size check that opens WindowBuffer::push
PushRejects(b, x) == Len(x) > b.capacity

\* the size check that opens WindowBuffer::get
GetRejects(b, size) == size > b.capacity

\* a push that loses the wrapped part: only buffer[index..en] is written
PushBodyNoWrap(b, x) ==
    LET cap  == b.capacity
        e    == b.index + Len(x)
        en   == IF e > cap THEN cap ELSE e
    IN  [buffer   |-> [i \in 1..cap |->
                         IF (i - 1) >= b.index /\ (i - 1) < en
                         THEN x[(i - 1) - b.index + 1]
                         ELSE b.buffer[i]],
         index    |-> (b.index + Len(x)) % cap,
         capacity |-> cap,
         oob      |-> FALSE]

\* WindowBuffer::push after its size check: the two copy loops and the cursor
\* update.  oob is TRUE when the second loop would index buffer[] past its
\* end (a bounds-check panic after the writes made so far).
PushBody(b, x) ==
    LET cap  == b.capacity
        e    == b.index + Len(x)
        wrap == e > cap
        en   == IF wrap THEN cap ELSE e
        \* for i in self.index..en { self.buffer[i] = x[i - self.index] }
        b1   == [i \in 1..cap |->
                   IF (i - 1) >= b.index /\ (i - 1) < en
                   THEN x[(i - 1) - b.index + 1]
                   ELSE b.buffer[i]]
        os   == cap - b.index
        \* for i in 0..x.len() - os { self.buffer[i] = x[i + os] }
        b2   == IF wrap
                THEN [i \in 1..cap |->
                        IF (i - 1) < Len(x) - os THEN x[(i - 1) + os + 1] ELSE b1[i]]
                ELSE b1
        oob  == wrap /\ Len(x) - os > cap
    IN  [buffer   |-> b2,
         index    |-> IF oob THEN b.index ELSE (b.index + Len(x)) % cap,
         capacity |-> cap,
         oob      |-> oob]

\* a read that loses the wrapped part: only buffer[st..en] is copied
GetBodyNoWrap(b, size) ==
    LET cap  == b.capacity
        s    == b.index - size
        wrap == s < 0
        st   == IF wrap THEN cap + s ELSE s
        en   == IF wrap THEN cap ELSE b.index
    IN  [k \in 1..size |->
           IF (k - 1) < en - st THEN b.buffer[st + (k - 1) + 1] ELSE 0]

\* WindowBuffer::get after its size check
GetBody(b, size) ==
    LET cap  == b.capacity
        s    == b.index - size
        wrap == s < 0
        st   == IF wrap THEN cap + s ELSE s
        en   == IF wrap THEN cap ELSE b.index
        os   == en - st
    IN  [k \in 1..size |->
           IF (k - 1) < en - st
           THEN b.buffer[st + (k - 1) + 1]            \* out[i - st] = buffer[i]
           ELSE IF wrap /\ (k - 1) - os < b.index
                THEN b.buffer[(k - 1) - os + 1]       \* out[i + os] = buffer[i]
                ELSE 0]                               \* vec![0f64; size]

\* a read that consumes what it returns
GetCursorConsuming(b, size) == (b.index + b.capacity - size) % b.capacity

\* the cursor after WindowBuffer::get (get takes &self)
GetCursor(b, size) == b.index

\* the samples a caller has pushed most recently, for comparison with get
Remember(hist, x, cap) ==
    LET all == hist \o x IN LastN(all, Min(cap, Len(all)))

\* the value of the Analyzer variables in runs that construct no Analyzer
NoAnalyzer == [block_size |-> 0, sample_count |-> 0]

\* Option::None as returned by Analyzer::process
None == [some |-> FALSE, snapshot |-> <<>>]

\* the values of gc, bf and sensor in runs that construct none of them
NoGc == [kind |-> "none"]
NoBf == [kind |-> "none"]
NoSensor == [size |-> 0]

\* the value of the Bucketer variables in runs that construct no Bucketer
NoBucketer == [indices |-> <<>>, output |-> <<>>]
NoArgs == [input_size |-> 0, buckets |-> 0, f_min |-> 0, f_max |-> 0]

\* the value of the Features variable in runs that construct no FrequencySensor
NoFeatures == [amplitudes |-> <<>>, index |-> 0, length |-> 0, size |-> 0]

InitBuf ==
    /\ \E capacity \in 1..MaxCap :
         /\ wb = WindowBufferNew(capacity)
         /\ fft_size \in {0} \cup {f \in 1..MaxCap : 2 * f = capacity}
    /\ pushed = <<>>
    /\ out = <<>>
    /\ features = NoFeatures /\ calls = 0 /\ written = <<>>
    /\ bucketer = NoBucketer /\ bkargs = NoArgs /\ spectrum = <<>>
    /\ analyzer = NoAnalyzer /\ boost = 0 /\ ret = None
    /\ gc = NoGc /\ bf = NoBf /\ sensor = NoSensor /\ trace = <<>>
    /\ op = [name |-> "new", arg |-> 0]
    /\ panicked = FALSE

\* WindowBuffer::push(x), also reached through SlidingFFT::push_input
push(x) ==
    /\ ~panicked
    /\ op' = [name |-> "push", arg |-> Len(x)]
    /\ IF PushRejects(wb, x)
       THEN /\ panicked' = TRUE
            /\ UNCHANGED <<wb, pushed>>
       ELSE LET r == PushBody(wb, x)
            IN  /\ wb' = [buffer |-> r.buffer, index |-> r.index, capacity |-> r.capacity]
                /\ panicked' = r.oob
                /\ pushed' = Remember(pushed, x, wb.capacity)
    /\ out' = <<>>
    /\ UNCHANGED <<fft_size, featVars, bkVars, anVars, ctlVars, trace>>

\* WindowBuffer::get(size)
get(size) ==
    /\ ~panicked
    /\ op' = [name |-> "get", arg |-> size]
    /\ IF GetRejects(wb, size)
       THEN /\ panicked' = TRUE
            /\ out' = <<>>
            /\ UNCHANGED wb
       ELSE /\ out' = GetBody(wb, size)
            /\ wb' = [wb EXCEPT !.index = GetCursor(wb, size)]
            /\ panicked' = FALSE
    /\ UNCHANGED <<fft_size, pushed, featVars, bkVars, anVars, ctlVars, trace>>

\* SlidingFFT::process: reads the most recent fft_size samples; the windowed
\* transform is a function of that frame alone and writes only the
\* SlidingFFT's own complex/output buffers.
sfft_process ==
    /\ ~panicked
    /\ fft_size > 0
    /\ op' = [name |-> "sfft_process", arg |-> fft_size]
    /\ IF GetRejects(wb, fft_size)
       THEN /\ panicked' = TRUE
            /\ out' = <<>>
            /\ UNCHANGED wb
       ELSE /\ out' = GetBody(wb, fft_size)   \* let fft_frame = self.buffer.get(self.fft_size)
            /\ wb' = [wb EXCEPT !.index = GetCursor(wb, fft_size)]
            /\ panicked' = FALSE
    /\ UNCHANGED <<fft_size, pushed, featVars, bkVars, anVars, ctlVars, trace>>

\* the frames a caller may push: up to one sample more than the largest capacity
Frames == SeqsUpTo(Samples, MaxCap + 1)

NextBuf ==
    \/ \E x \in Frames : Len(x) <= wb.capacity + 1 /\ push(x)
    \/ \E size \in 0..(MaxCap + 1) : size <= wb.capacity + 1 /\ get(size)
    \/ sfft_process

SpecBuf == InitBuf /\ [][NextBuf]_vars

----------------------------------------------------------------------------
(* Properties of WindowBuffer and SlidingFFT (SpecBuf) *)

\* C1: get(n), for n no larger than the number of samples pushed so far (and
\* than capacity), returns exactly the n most recently pushed samples, oldest
\* first, wrapped or not.
C1_GetReturnsMostRecent ==
    (op.name = "get" /\ ~panicked /\ op.arg <= Len(pushed))
        => out = LastN(pushed, op.arg)

\* a full-capacity read that straddles the end of the storage, after pushes
\* that wrapped (more than capacity samples pushed, cursor not at 0)
C1_Witness ==
    /\ op.name = "get" /\ ~panicked
    /\ wb.capacity = MaxCap /\ op.arg = wb.capacity
    /\ Len(pushed) = wb.capacity /\ wb.index = 2
    /\ out = pushed
    /\ out[1] /= out[2] /\ out[2] /= out[3]

\* C2: a push of more than capacity samples and a get of more than capacity
\* samples both panic, and neither has changed the buffer or the cursor.
C2_OversizeRejectedBeforeWrite ==
    [][ (op'.name \in {"push", "get"} /\ op'.arg > wb.capacity)
            => (panicked' /\ wb' = wb) ]_vars

\* an oversize push was rejected on a buffer that already held samples
C2_Witness ==
    /\ panicked /\ op.name = "push" /\ op.arg = wb.capacity + 1
    /\ Len(pushed) = wb.capacity /\ wb.index > 0

\* C3: WindowBuffer::get and SlidingFFT::process leave the stored samples and
\* the cursor as they were, and a read repeated with no push in between
\* returns the same samples.
C3_ReadHasNoSideEffect ==
    [][ /\ (op'.name \in {"get", "sfft_process"} => wb' = wb)
        /\ (op.name \in {"get", "sfft_process"} /\ op' = op /\ ~panicked')
               => out' = out ]_vars

\* SlidingFFT::process has read its frame from a buffer whose cursor is in
\* the middle of the storage
C3_Witness ==
    /\ op.name = "sfft_process" /\ ~panicked
    /\ wb.index > 0 /\ Len(pushed) = wb.capacity
    /\ out = LastN(pushed, fft_size) /\ pushed[1] /= pushed[2]

----------------------------------------------------------------------------
(* Features and FrequencySensor, frequency_sensor.rs *)

MaxLength == 2    \* largest Features ring length explored
MaxSize == 1      \* largest number of bands of a stand-alone sensor
MaxAmp == 2       \* amplitude values written are 1..MaxAmp (0 is the initial fill)
MaxCalls == 7     \* FrequencySensor::process calls per run

\* the amplitude vectors a call may compute for `size` bands
AmpVectors(size) == {v \in SeqsUpTo(1..MaxAmp, MaxSize) : Len(v) = size}

\* Features::new
FeaturesNew(size, length) ==
    [amplitudes |-> [k \in 1..length |-> [i \in 1..size |-> 0]],
     index |-> 0, length |-> length, size |-> size]

\* self.index %= self.length panics (remainder by zero) in a ring of length 0
IncrementIndexPanics(f) == f.length = 0

\* an index update that steps over a slot
IncrementIndexTwice(f) == [f EXCEPT !.index = (f.index + 2) % f.length]

\* Features::increment_index
IncrementIndex(f) == [f EXCEPT !.index = (f.index + 1) % f.length]

\* Features::current_index (i32 arithmetic)
CurrentIndex(f, i) ==
    LET d == f.index - (i % f.length)
    IN  IF d < 0 THEN d + f.length ELSE d

\* Features::get_amplitudes
GetAmplitudes(f, i) == f.amplitudes[CurrentIndex(f, i) + 1]

\* an update that writes the slot first and advances the index afterwards
ApplyEffectsWriteFirst(f, amp) ==
    IncrementIndex([f EXCEPT !.amplitudes[CurrentIndex(f, 0) + 1] = amp])

\* FrequencySensor::apply_effects on the ring: advance the index, then write
\* the call's amplitude vector through get_amplitudes_mut(0).  amp stands for
\* ao + ag * (amp_filter.values[i] + amp_feedback.values[i]), i in 0..size.
ApplyEffects(f, amp) ==
    LET g == IncrementIndex(f)
    IN  [g EXCEPT !.amplitudes[CurrentIndex(g, 0) + 1] = amp]

InitFeat ==
    /\ \E size \in 1..MaxSize, length \in 1..MaxLength :
         features = FeaturesNew(size, length)
    /\ calls = 0
    /\ written = <<>>
    /\ wb = WindowBufferNew(0) /\ fft_size = 0 /\ pushed = <<>> /\ out = <<>>
    /\ bucketer = NoBucketer /\ bkargs = NoArgs /\ spectrum = <<>>
    /\ analyzer = NoAnalyzer /\ boost = 0 /\ ret = None
    /\ gc = NoGc /\ bf = NoBf /\ sensor = NoSensor /\ trace = <<>>
    /\ op = [name |-> "new", arg |-> 0]
    /\ panicked = FALSE

\* FrequencySensor::process: the filter stages produce this call's amplitude
\* vector amp, apply_effects stores it, apply_sync and apply_value_scaling
\* leave the ring alone.
fs_process(amp) ==
    /\ ~panicked
    /\ calls < MaxCalls
    /\ features' = ApplyEffects(features, amp)
    /\ calls' = calls + 1
    /\ written' = Remember(written, <<amp>>, features.length)
    /\ op' = [name |-> "fs_process", arg |-> calls + 1]
    /\ out' = <<>>
    /\ UNCHANGED <<wb, fft_size, pushed, bkVars, anVars, ctlVars, trace, panicked>>

\* Features::get_amplitudes(i)
get_amplitudes(i) ==
    /\ ~panicked
    /\ out' = GetAmplitudes(features, i)
    /\ op' = [name |-> "get_amplitudes", arg |-> i]
    /\ UNCHANGED <<wb, fft_size, pushed, featVars, bkVars, anVars, ctlVars, trace, panicked>>

NextFeat ==
    \/ \E amp \in AmpVectors(features.size) : fs_process(amp)
    \/ \E i \in 0..MaxLength : get_amplitudes(i)

SpecFeat == InitFeat /\ [][NextFeat]_vars

(* Properties of the Features ring (SpecFeat) *)

\* C5: once at least `length` calls have been made, get_amplitudes(i) for
\* every i in [0, length) is the amplitude vector written i calls before the
\* latest one, and the slot read is (index - i) mod length, inside the ring.
C5_RingLookback ==
    \A i \in 0..(features.length - 1) :
        /\ CurrentIndex(features, i) \in 0..(features.length - 1)
        /\ CurrentIndex(features, i) = (features.index - i) % features.length
        /\ calls >= features.length
              => GetAmplitudes(features, i) = written[Len(written) - i]

\* a full ring of pairwise different vectors, written after the index wrapped,
\* and the oldest of them just read
C5_Witness ==
    /\ features.length = MaxLength /\ calls > features.length
    /\ features.index = 1
    /\ op.name = "get_amplitudes" /\ op.arg = features.length - 1
    /\ out = written[1]
    /\ \A j, k \in 1..Len(written) : j /= k => written[j] /= written[k]

----------------------------------------------------------------------------
(* Bucketer, bucketer.rs *)

MaxInput == 24    \* largest input_size explored
MaxBuckets == 5   \* largest number of buckets explored

\* the (f_min, f_max) pairs explored: those of tests::it_works and of Analyzer::new
FreqPairs == {<<32, 16000>>, <<32, 22000>>}

(* The f32 arithmetic of Bucketer::new is carried out in binary fixed point:  *)
(* a log-scale value has LogBits fraction bits, a mantissa in [1, 2) has      *)
(* MantBits, a frequency has ValBits.  Every intermediate fits 31 bits.  For  *)
(* all arguments within the bounds above, and the bounds raised by one, the   *)
(* indices computed here are those the f32 code computes.                     *)
LogBits == 12
MantBits == 14
ValBits == 8

RECURSIVE FloorLog2(_)
FloorLog2(n) == IF n < 2 THEN 0 ELSE 1 + FloorLog2(n \div 2)

\* the fraction bits of log2(m / 2^MantBits), by repeated squaring
RECURSIVE LogFraction(_, _, _)
LogFraction(m, j, r) ==
    IF j = 0 THEN r
    ELSE LET sq == (m * m) \div 2^MantBits
         IN  IF sq >= 2 * 2^MantBits
             THEN LogFraction(sq \div 2, j - 1, 2 * r + 1)
             ELSE LogFraction(sq, j - 1, 2 * r)

\* f32::log2 of a positive integer
Log2Fix(n) ==
    LET e == FloorLog2(n)
        m == IF e > MantBits THEN n \div 2^(e - MantBits) ELSE n * 2^(MantBits - e)
    IN  e * 2^LogBits + LogFraction(m, LogBits, 0)

\* fn to_log_scale(x) = (x + 1.).log2()
to_log_scale(x) == Log2Fix(x + 1)

RECURSIVE ISqrtSearch(_, _, _)
ISqrtSearch(lo, hi, x) ==
    IF lo >= hi THEN lo
    ELSE LET mid == (lo + hi + 1) \div 2
         IN  IF mid * mid <= x THEN ISqrtSearch(mid, hi, x)
                               ELSE ISqrtSearch(lo, mid - 1, x)

\* floor of the square root of x < 2^31
ISqrt(x) == ISqrtSearch(0, 46340, x)

\* 2^(r / 2^LogBits) as a mantissa, by nested square roots over the bits of r
RECURSIVE Pow2Fraction(_, _, _)
Pow2Fraction(x, j, r) ==
    IF j = LogBits THEN x
    ELSE LET x1 == IF (r \div 2^j) % 2 = 1 THEN 2 * x ELSE x
         IN  Pow2Fraction(ISqrt(x1 * 2^MantBits), j + 1, r)

\* (2f32).powf(y); from 2^17 on, above every f_max explored, the value is
\* held at 2^17 (the index it yields is clamped to input_size - 1 anyway)
Pow2Fix(y) ==
    LET e  == y \div 2^LogBits
        r  == y % 2^LogBits
        sh == e + ValBits - MantBits
        m  == Pow2Fraction(2^MantBits, 0, r)
    IN  IF e >= 17 THEN 2^(17 + ValBits)
        ELSE IF sh >= 0 THEN m * 2^sh ELSE m \div 2^(0 - sh)

\* fn from_log_scale(x) = (2f32).powf(x) + 1.
from_log_scale(y) == Pow2Fix(y) + 2^ValBits

\* (a / b).ceil() for a >= 0, b > 0
Ceil(a, b) == (a + b - 1) \div b

\* the loop of Bucketer::new from iteration i on; c holds the loop invariants
RECURSIVE IndexLoop(_, _, _, _, _)
IndexLoop(i, last_idx, offset, indices, c) ==
    IF i >= c.buckets - 1 THEN indices
    ELSE LET adj  == c.space - (c.delta * offset) \div c.buckets
             v    == from_log_scale((i + 1) * adj + c.s_min + offset * c.delta)
             raw  == Ceil(c.input_size * v, c.f_max * 2^ValBits)
             bump == raw <= last_idx
             idx1 == IF bump THEN last_idx + 1 ELSE raw
             idx  == IF idx1 >= c.input_size THEN c.input_size - 1 ELSE idx1
         IN  IndexLoop(i + 1, idx, IF bump THEN offset + 1 ELSE offset,
                       Append(indices, idx), c)

\* Bucketer::new.  With buckets = 0 the length buckets - 1 of `indices`
\* underflows: an overflow panic in a checked build, a capacity-overflow panic
\* of vec! in an unchecked one.
BucketerNew(input_size, buckets, f_min, f_max) ==
    IF buckets = 0
    THEN [panic |-> TRUE, indices |-> <<>>, output |-> <<>>]
    ELSE LET s_min == to_log_scale(f_min)
             s_max == to_log_scale(f_max)
             c == [input_size |-> input_size, buckets |-> buckets, f_max |-> f_max,
                   s_min |-> s_min,
                   space |-> (s_max - s_min) \div buckets,
                   delta |-> (s_max - s_min) \div input_size]
         IN  [panic   |-> FALSE,
              indices |-> IndexLoop(0, 0, 0, <<>>, c),
              output  |-> [i \in 1..buckets |-> [num |-> 0, den |-> 1]]]

RECURSIVE GCD(_, _)
GCD(a, b) == IF b = 0 THEN a ELSE GCD(b, a % b)

\* the f32 quotient sum / n of two small non-negative integers: a fraction in
\* lowest terms, or NaN (written 0/0) for 0 / 0
NaN == [num |-> 0, den |-> 0]
Div(sum, n) ==
    IF n = 0 THEN NaN
    ELSE LET g == GCD(sum, n) IN [num |-> sum \div g, den |-> n \div g]

\* input[start..stop].iter().sum()
RECURSIVE SumRange(_, _, _)
SumRange(input, start, stop) ==
    IF start >= stop THEN 0
    ELSE input[start + 1] + SumRange(input, start + 1, stop)

\* the bounds of bucket i (0-based) in Bucketer::bucket
BucketStart(b, i) == IF i = 0 THEN 0 ELSE b.indices[(i - 1) + 1]
BucketStop(b, i, input) ==
    IF i = Len(b.output) - 1 THEN Len(input) ELSE b.indices[i + 1]

\* the slice input[start..stop] panics when start > stop or stop > input.len()
BucketPanics(b, input) ==
    \E i \in 0..(Len(b.output) - 1) :
        \/ BucketStart(b, i) > BucketStop(b, i, input)
        \/ BucketStop(b, i, input) > Len(input)

\* an averaging loop whose last bucket leaves out the final bin
BucketDropsLastBin(b, input) ==
    [k \in 1..Len(b.output) |->
        LET start == BucketStart(b, k - 1)
            stop  == IF k = Len(b.output) THEN Len(input) - 1
                     ELSE BucketStop(b, k - 1, input)
        IN  Div(SumRange(input, start, stop), stop - start)]

\* Bucketer::bucket
Bucket(b, input) ==
    [k \in 1..Len(b.output) |->
        LET start == BucketStart(b, k - 1)
            stop  == BucketStop(b, k - 1, input)
        IN  Div(SumRange(input, start, stop), stop - start)]

\* the spectra explored for an input of n bins: the ramp 0..n-1, all ones,
\* and a single 1 at each position
Spectra(n) ==
    {[j \in 1..n |-> j - 1], [j \in 1..n |-> 1]}
        \cup {[j \in 1..n |-> IF j = p THEN 1 ELSE 0] : p \in 1..n}

InitBk ==
    /\ bucketer = NoBucketer /\ bkargs = NoArgs /\ spectrum = <<>>
    /\ wb = WindowBufferNew(0) /\ fft_size = 0 /\ pushed = <<>> /\ out = <<>>
    /\ features = NoFeatures /\ calls = 0 /\ written = <<>>
    /\ analyzer = NoAnalyzer /\ boost = 0 /\ ret = None
    /\ gc = NoGc /\ bf = NoBf /\ sensor = NoSensor /\ trace = <<>>
    /\ op = [name |-> "start", arg |-> 0]
    /\ panicked = FALSE

\* Bucketer::new(input_size, buckets, f_min, f_max)
bucketer_new(input_size, buckets, f) ==
    /\ ~panicked
    /\ op.name = "start"
    /\ bkargs' = [input_size |-> input_size, buckets |-> buckets,
                  f_min |-> f[1], f_max |-> f[2]]
    /\ LET r == BucketerNew(input_size, buckets, f[1], f[2])
       IN  /\ panicked' = r.panic
           /\ bucketer' = IF r.panic THEN bucketer
                          ELSE [indices |-> r.indices, output |-> r.output]
    /\ spectrum' = <<>>
    /\ op' = [name |-> "bucketer_new", arg |-> buckets]
    /\ UNCHANGED <<bufVars, featVars, anVars, ctlVars, trace>>

\* Bucketer::bucket(input)
bucket(input) ==
    /\ ~panicked
    /\ op.name \in {"bucketer_new", "bucket"}
    /\ spectrum' = input
    /\ IF BucketPanics(bucketer, input)
       THEN /\ panicked' = TRUE
            /\ UNCHANGED bucketer
       ELSE /\ bucketer' = [bucketer EXCEPT !.output = Bucket(bucketer, input)]
            /\ panicked' = FALSE
    /\ op' = [name |-> "bucket", arg |-> Len(input)]
    /\ UNCHANGED <<bkargs, bufVars, featVars, anVars, ctlVars, trace>>

NextBk ==
    \/ \E input_size \in 1..MaxInput, buckets \in 0..MaxBuckets, f \in FreqPairs :
          bucketer_new(input_size, buckets, f)
    \/ \E input \in Spectra(bkargs.input_size) : bucket(input)

SpecBk == InitBk /\ [][NextBk]_vars

(* Properties of Bucketer (SpecBk) *)

\* a Bucketer exists: Bucketer::new has returned
Constructed == op.name \in {"bucketer_new", "bucket"} /\ ~panicked

\* C7: for buckets >= 2 the buckets - 1 boundary indices are strictly
\* increasing, so that no bucket is empty; the first bucket starts at 0 and
\* the last one ends at input_size.
C7_BoundariesStrictlyIncreasing ==
    (Constructed /\ bkargs.buckets >= 2) =>
        /\ Len(bucketer.indices) = bkargs.buckets - 1
        /\ \A k \in 1..(Len(bucketer.indices) - 1) :
               bucketer.indices[k] < bucketer.indices[k + 1]
        /\ BucketStart(bucketer, 0) = 0
        /\ op.name = "bucket" =>
               BucketStop(bucketer, bkargs.buckets - 1, spectrum) = bkargs.input_size

\* C8: Bucketer::new with fewer than 2 buckets panics.
C8_FewerThanTwoBucketsPanics ==
    (op.name = "bucketer_new" /\ bkargs.buckets < 2) => panicked

\* the bins that make up output i (0-based): [boundary[i-1], boundary[i]),
\* from 0 for the first and up to the spectrum length for the last
BinsOf(i) ==
    LET lower == IF i = 0 THEN 0 ELSE bucketer.indices[i]
        upper == IF i = bkargs.buckets - 1 THEN Len(spectrum)
                 ELSE bucketer.indices[i + 1]
    IN  {j \in 0..(Len(spectrum) - 1) : lower <= j /\ j < upper}

RECURSIVE SumOfBins(_)
SumOfBins(J) ==
    IF J = {} THEN 0
    ELSE LET j == CHOOSE x \in J : TRUE
         IN  spectrum[j + 1] + SumOfBins(J \ {j})

C10_ZerothBinIsOwnBucket ==
    (Constructed /\ bkargs.buckets >= 2) =>
        /\ bucketer.indices[1] = 1
        /\ op.name = "bucket" => bucketer.output[1] = Div(spectrum[1], 1)

(* ------------------------------ Analyzer ------------------------------ *)

MaxFft == 2       \* largest fft_size an Analyzer is constructed with
MaxBlock == 3     \* largest block_size an Analyzer is constructed with
MaxBands == 2     \* largest number of bands an Analyzer is constructed with

\* the scale a BoostController applies to a frame.  The control loop's
\* arithmetic is not part of this specification: the scale is a symbolic
\* factor, different from 1 so that a scaled sample differs from a raw one.
Scales == {2}

\* the test of line 43 with a strict comparison
BlockReadyStrict(count, block_size) == count > block_size

\* if self.sample_count >= self.block_size
BlockReady(count, block_size) == count >= block_size

\* a scaling that leaves the last sample of the frame as it came
BoostSkipsLast(frame, scale) ==
    [j \in 1..Len(frame) |-> IF j = Len(frame) THEN frame[j] ELSE frame[j] * scale]

\* BoostController::process: every sample is multiplied by the same scale
Boost(frame, scale) == [j \in 1..Len(frame) |-> frame[j] * scale]

\* a frame of k unit samples
UnitFrame(k) == [j \in 1..k |-> 1]

\* the amplitude vector FrequencySensor::process stores: one nonzero value
\* per band, against the zeros Features::new fills the ring with
SensorAmp(size) == [i \in 1..size |-> 1]

\* Analyzer::new(fft_size, block_size, size, length, ..)
InitAn ==
    /\ \E f \in 2..MaxFft, block_size \in 0..MaxBlock,
          size \in 1..MaxBands, length \in 0..MaxLength :
         LET r == BucketerNew(f \div 2, size, 32, 22000)
         IN  /\ ~r.panic
             /\ fft_size = f
             /\ wb = WindowBufferNew(f * 2)
             /\ bkargs = [input_size |-> f \div 2, buckets |-> size,
                          f_min |-> 32, f_max |-> 22000]
             /\ bucketer = [indices |-> r.indices, output |-> r.output]
             /\ features = FeaturesNew(size, length)
             /\ analyzer = [block_size |-> block_size, sample_count |-> 0]
    /\ boost = 1
    /\ gc = NoGc /\ bf = NoBf /\ sensor = NoSensor /\ trace = <<>>
    /\ ret = None
    /\ pushed = <<>> /\ out = <<>> /\ spectrum = <<>>
    /\ calls = 0 /\ written = <<>>
    /\ op = [name |-> "new", arg |-> 0]
    /\ panicked = FALSE

\* Analyzer::process(frame) for a frame of k samples.  scale is the value the
\* BoostController settles on for this frame, bins the log-magnitude spectrum
\* SlidingFFT::process computes from the most recent fft_size samples, and the
\* sensor stores the amplitude vector its filter stages make of the bucketed bins.
process(k, scale, bins) ==
    /\ ~panicked
    /\ op' = [name |-> "process", arg |-> k]
    /\ boost' = scale
    /\ LET count  == analyzer.sample_count + k         \* self.sample_count += frame.len()
           scaled == Boost(UnitFrame(k), scale)        \* self.boost.process(frame)
       IN  IF PushRejects(wb, scaled)                  \* self.sfft.push_input(frame)
           THEN /\ analyzer' = [analyzer EXCEPT !.sample_count = count]
                /\ panicked' = TRUE
                /\ ret' = None
                /\ trace' = <<"boost", "push_input">>
                /\ UNCHANGED <<wb, pushed, out, spectrum, bucketer, features>>
           ELSE LET r == PushBody(wb, scaled)
                    b == [buffer |-> r.buffer, index |-> r.index, capacity |-> r.capacity]
                IN  /\ pushed' = Remember(pushed, scaled, wb.capacity)
                    /\ IF r.oob
                       THEN /\ analyzer' = [analyzer EXCEPT !.sample_count = count]
                            /\ wb' = b
                            /\ panicked' = TRUE
                            /\ ret' = None
                            /\ trace' = <<"boost", "push_input">>
                            /\ UNCHANGED <<out, spectrum, bucketer, features>>
                       ELSE IF BlockReady(count, analyzer.block_size)
                       THEN /\ analyzer' = [analyzer EXCEPT !.sample_count = 0]
                            /\ IF GetRejects(b, fft_size)           \* self.sfft.process()
                               THEN /\ wb' = b
                                    /\ panicked' = TRUE
                                    /\ ret' = None
                                    /\ trace' = <<"boost", "push_input", "sfft_process">>
                                    /\ UNCHANGED <<out, spectrum, bucketer, features>>
                               ELSE /\ out' = GetBody(b, fft_size)
                                    /\ wb' = [b EXCEPT !.index = GetCursor(b, fft_size)]
                                    /\ spectrum' = bins
                                    /\ IF BucketPanics(bucketer, bins)   \* self.bucketer.bucket(spectrum)
                                       THEN /\ panicked' = TRUE
                                            /\ ret' = None
                                            /\ trace' = <<"boost", "push_input", "sfft_process", "bucket">>
                                            /\ UNCHANGED <<bucketer, features>>
                                       ELSE /\ bucketer' = [bucketer EXCEPT
                                                              !.output = Bucket(bucketer, bins)]
                                            /\ trace' = <<"boost", "push_input", "sfft_process",
                                                          "bucket", "fs_process">>
                                            /\ IF IncrementIndexPanics(features)  \* self.frequency_sensor.process(bins)
                                               THEN /\ panicked' = TRUE
                                                    /\ ret' = None
                                                    /\ features' = [features EXCEPT !.index = @ + 1]
                                               ELSE /\ features' = ApplyEffects(features,
                                                                       SensorAmp(features.size))
                                                    /\ panicked' = FALSE
                                                    /\ ret' = [some |-> TRUE, snapshot |-> features']
                       ELSE /\ analyzer' = [analyzer EXCEPT !.sample_count = count]
                            /\ wb' = b
                            /\ out' = <<>>
                            /\ panicked' = FALSE
                            /\ ret' = None
                            /\ trace' = <<"boost", "push_input">>
                            /\ UNCHANGED <<spectrum, bucketer, features>>
    /\ UNCHANGED <<fft_size, bkargs, calls, written, ctlVars>>

NextAn ==
    \E k \in 0..(2 * MaxFft + 1), scale \in Scales,
       bins \in Spectra(bkargs.input_size) :
        k <= wb.capacity + 1 /\ process(k, scale, bins)

SpecAn == InitAn /\ [][NextAn]_vars

(* Properties of Analyzer (SpecAn) *)

\* C4 (as stated): process adds frame.len() to sample_count, returns a snapshot
\* exactly on the calls where the accumulated count has reached block_size,
\* resets the counter to 0 on those calls and returns nothing on the others;
\* after every call sample_count < block_size.
C4_CounterBelowBlockAfterCall ==
    [][(op'.name = "process" /\ ~panicked') =>
        LET count == analyzer.sample_count + op'.arg
        IN  /\ ret'.some = (count >= analyzer.block_size)
            /\ ret'.some => analyzer'.sample_count = 0
            /\ ~ret'.some => analyzer'.sample_count = count
            /\ analyzer'.sample_count < analyzer'.block_size]_vars

\* C4 (amended): process adds frame.len() to sample_count, returns a snapshot of
\* the updated Features exactly on the calls where the accumulated count has
\* reached block_size, resets the counter to 0 on those calls (overshoot is
\* dropped) and returns nothing, leaving Features alone, on the others; after
\* every completed call sample_count < block_size provided block_size >= 1,
\* and sample_count = 0 when block_size = 0.
C4_SnapshotExactlyWhenBlockFull ==
    [][(op'.name = "process" /\ ~panicked') =>
        LET count == analyzer.sample_count + op'.arg
        IN  /\ analyzer'.block_size = analyzer.block_size
            /\ ret'.some = (count >= analyzer.block_size)
            /\ ret'.some => (analyzer'.sample_count = 0 /\ ret'.snapshot = features')
            /\ ~ret'.some => (analyzer'.sample_count = count /\ features' = features)
            /\ analyzer.block_size >= 1 => analyzer'.sample_count < analyzer.block_size
            /\ analyzer.block_size = 0 => analyzer'.sample_count = 0]_vars

\* a call whose frame alone exceeds block_size returned a snapshot and left
\* the counter at 0
C4_Witness ==
    /\ op.name = "process" /\ ~panicked
    /\ analyzer.block_size >= 1
    /\ op.arg > analyzer.block_size
    /\ ret.some /\ ret.snapshot = features
    /\ analyzer.sample_count = 0

\* C15: a call of Analyzer::process with a frame of at most 2 * fft_size
\* samples never panics, in any state an Analyzer can reach.
C15_ProcessRunsToCompletion ==
    [][(op'.name = "process" /\ op'.arg <= 2 * fft_size) => ~panicked']_vars

\* C20: on every call, with or without a snapshot, the frame pushed into the
\* SlidingFFT buffer is the caller's frame with every sample multiplied by the
\* one scale of that call, BoostController running before push_input;
\* SlidingFFT::process, Bucketer::bucket and FrequencySensor::process follow,
\* in that order and once each, exactly on the calls that return a snapshot.
C20_BoostThenPushThenStages ==
    [][(op'.name = "process" /\ ~panicked') =>
        LET k == op'.arg
        IN  /\ pushed' = Remember(pushed, [j \in 1..k |-> boost'], wb.capacity)
            /\ \A j \in 1..k :
                  wb'.buffer[((wb.index + j - 1) % wb.capacity) + 1] = boost'
            /\ trace' = IF ret'.some
                        THEN <<"boost", "push_input", "sfft_process", "bucket", "fs_process">>
                        ELSE <<"boost", "push_input">>]_vars

\* a call that returned nothing has scaled and pushed its two samples
C20_Witness ==
    /\ op.name = "process" /\ ~panicked /\ ~ret.some
    /\ op.arg = 2 /\ analyzer.sample_count = 2
    /\ LastN(pushed, 2) = <<boost, boost>> /\ boost /= 1
    /\ trace = <<"boost", "push_input">>

----------------------------------------------------------------------------
(* Floating point, as used by filter.rs, gain_control.rs and              *)
(* frequency_sensor.rs                                                     *)

\* A float is [k, m, e]: k = "fin" with value m * 10^e, where m = 0 (and
\* e = 0) or 1000 <= |m| <= 9999; k = "inf" with m = 1 or -1; k = "nan".
\* Results are rounded to these four significant decimal digits (half away
\* from zero), overflow gives an infinity and underflow flushes to zero,
\* with the exponent range of f32.
Digits == 4
EMax == 35
EMin == -48

NaNf == [k |-> "nan", m |-> 0, e |-> 0]
Inf(sign) == [k |-> "inf", m |-> sign, e |-> 0]
Zero == [k |-> "fin", m |-> 0, e |-> 0]

IsNaN(a) == a.k = "nan"
IsInf(a) == a.k = "inf"
IsFin(a) == a.k = "fin"

AbsInt(n) == IF n < 0 THEN -n ELSE n
SignInt(n) == IF n < 0 THEN -1 ELSE 1

\* the number of decimal digits of n >= 1
RECURSIVE NumDigits(_)
NumDigits(n) == IF n < 10 THEN 1 ELSE 1 + NumDigits(n \div 10)

\* the float nearest to m * 10^e, for any integer m
Norm(m, e) ==
    IF m = 0 THEN Zero
    ELSE LET a     == AbsInt(m)
             shift == NumDigits(a) - Digits
             q0    == IF shift > 0
                      THEN (a + 5 * 10^(shift - 1)) \div 10^shift
                      ELSE a * 10^(-shift)
             carry == q0 = 10^Digits
             q     == IF carry THEN 10^(Digits - 1) ELSE q0
             e1    == e + shift + (IF carry THEN 1 ELSE 0)
         IN  IF e1 > EMax THEN Inf(SignInt(m))
             ELSE IF e1 < EMin THEN Zero
             ELSE [k |-> "fin", m |-> SignInt(m) * q, e |-> e1]

\* a literal: m * 10^e
F(m, e) == Norm(m, e)

One == F(1, 0)

FNeg(a) == IF IsNaN(a) THEN a ELSE [a EXCEPT !.m = -a.m]

FAbs(a) == IF IsNaN(a) THEN a ELSE [a EXCEPT !.m = AbsInt(a.m)]

\* f32::signum: 1.0 for positive numbers and +0.0, -1.0 for negative ones
FSignum(a) == IF IsNaN(a) THEN a ELSE IF a.m < 0 THEN F(-1, 0) ELSE One

FMul(a, b) ==
    IF IsNaN(a) \/ IsNaN(b) THEN NaNf
    ELSE IF IsInf(a) \/ IsInf(b)
         THEN IF a.m = 0 \/ b.m = 0 THEN NaNf          \* inf * 0
              ELSE Inf(SignInt(a.m) * SignInt(b.m))
    ELSE Norm(a.m * b.m, a.e + b.e)

FAdd(a, b) ==
    IF IsNaN(a) \/ IsNaN(b) THEN NaNf
    ELSE IF IsInf(a) /\ IsInf(b) THEN (IF a.m = b.m THEN a ELSE NaNf)   \* inf - inf
    ELSE IF IsInf(a) THEN a
    ELSE IF IsInf(b) THEN b
    ELSE IF a.m = 0 THEN b
    ELSE IF b.m = 0 THEN a
    ELSE IF a.e - b.e > Digits THEN a
    ELSE IF b.e - a.e > Digits THEN b
    ELSE IF a.e >= b.e THEN Norm(a.m * 10^(a.e - b.e) + b.m, b.e)
    ELSE Norm(b.m * 10^(b.e - a.e) + a.m, a.e)

FSub(a, b) == FAdd(a, FNeg(b))

FDiv(a, b) ==
    IF IsNaN(a) \/ IsNaN(b) THEN NaNf
    ELSE IF IsInf(a) THEN (IF IsInf(b) THEN NaNf ELSE Inf(a.m * SignInt(b.m)))
    ELSE IF IsInf(b) THEN Zero
    ELSE IF b.m = 0 THEN (IF a.m = 0 THEN NaNf ELSE Inf(SignInt(a.m)))   \* x / 0
    ELSE Norm(SignInt(a.m) * SignInt(b.m) *
                 ((AbsInt(a.m) * 10^(Digits + 1)) \div AbsInt(b.m)),
              a.e - b.e - (Digits + 1))

\* a < b; false when either is NaN
FLt(a, b) ==
    IF IsNaN(a) \/ IsNaN(b) \/ a = b THEN FALSE
    ELSE IF IsInf(a) THEN a.m < 0
    ELSE IF IsInf(b) THEN b.m > 0
    ELSE FSub(a, b).m < 0

FGt(a, b) == FLt(b, a)

\* a <= b; false when either is NaN
FLe(a, b) == ~IsNaN(a) /\ ~IsNaN(b) /\ ~FLt(b, a)

\* f64::max: the other operand when one is NaN
FMax(a, b) == IF IsNaN(a) THEN b ELSE IF IsNaN(b) THEN a ELSE IF FLt(a, b) THEN b ELSE a

\* f64::clamp: NaN stays NaN
FClamp(a, lo, hi) == IF FLt(a, lo) THEN lo ELSE IF FGt(a, hi) THEN hi ELSE a

\* f32::log2 of a float >= 0, in 2^-LogBits steps: with m = 1000 * f,
\* log2(m * 10^e) = log2(f) + (e + 3) * log2(10)
FLog2(a) ==
    IF IsNaN(a) THEN NaNf
    ELSE IF IsInf(a) THEN Inf(1)
    ELSE IF a.m = 0 THEN Inf(-1)
    ELSE LET d == a.e + Digits - 1
             decades == SignInt(d) * ((AbsInt(d) * 136066 + 5) \div 10)
         IN  FDiv(Norm(Log2Fix(a.m) - Log2Fix(10^(Digits - 1)) + decades, 0),
                  Norm(2^LogBits, 0))

----------------------------------------------------------------------------
(* Filter and BiasedFilter, filter.rs and frequency_sensor.rs *)

MaxSteps == 2     \* process calls per run of a filter or a gain controller

\* x in [0, 1) in 2^-LogBits steps
FracToFix(x) ==
    IF x.m <= 0 \/ x.e < -9 THEN 0 ELSE (x.m * 2^LogBits) \div 10^(-x.e)

\* (2f32).powf(x) for x in [0, 1)
FPow2(x) == FDiv(Norm(Pow2Fraction(2^MantBits, 0, FracToFix(x)), 0), Norm(2^MantBits, 0))

\* FilterParams::new(tau, gain), i.e. set_coefficients, for tau = 0 or tau >= 1
FilterParamsNew(tau, gain) ==
    IF tau = Zero
    THEN [a |-> gain, b |-> Zero]
    ELSE LET b == FMul(F(5, -1), FPow2(FDiv(FSub(tau, One), tau)))
             a == FSub(One, b)
         IN  [a |-> FMul(a, gain), b |-> FMul(b, gain)]

\* one band of the recurrence: params.a * input[i] + params.b * self.values[i]
FilterStep(p, x, v) == FAdd(FMul(p.a, x), FMul(p.b, v))

\* Filter::process
FilterProcess(values, input, p) ==
    [i \in 1..Len(values) |->
        IF i <= Len(input) THEN FilterStep(p, input[i], values[i]) ELSE values[i]]

\* BiasedFilter::process of filter.rs, called with params = (neg, pos):
\* params.0 when input[i] < self.values[i], params.1 otherwise
BiasedProcess(values, input, neg, pos) ==
    [i \in 1..Len(values) |->
        IF i <= Len(input)
        THEN FilterStep(IF FLt(input[i], values[i]) THEN neg ELSE pos, input[i], values[i])
        ELSE values[i]]

\* BiasedFilter::process of frequency_sensor.rs: self.pos_params when
\* input[i] < self.values[i], self.neg_params otherwise
SensorBiasedProcess(values, input, neg, pos) ==
    [i \in 1..Len(values) |->
        IF i <= Len(input)
        THEN FilterStep(IF FLt(input[i], values[i]) THEN pos ELSE neg, input[i], values[i])
        ELSE values[i]]

\* the (tau, gain) pairs filters are configured with: no memory, the shortest
\* memory, and the amp_filter default
FilterConfigs == {<<Zero, One>>, <<One, One>>, <<F(8, 0), One>>}

\* the samples fed to a band
BandInputs == {Zero, One, F(4, 0)}

\* the vectors of n band samples
BandVectors(n) == [1..n -> BandInputs]

\* BiasedFilter::new(2) of filter.rs, or BiasedFilter::new(2, pos, neg) of
\* frequency_sensor.rs, with two different parameter sets
InitBf ==
    /\ \E kind \in {"filter", "sensor"}, n \in FilterConfigs, p \in FilterConfigs :
         /\ n /= p
         /\ bf = [kind |-> kind, values |-> <<Zero, Zero>>,
                  neg |-> FilterParamsNew(n[1], n[2]),
                  pos |-> FilterParamsNew(p[1], p[2])]
    /\ calls = 0
    /\ written = <<>> /\ features = NoFeatures
    /\ wb = WindowBufferNew(0) /\ fft_size = 0 /\ pushed = <<>> /\ out = <<>>
    /\ bucketer = NoBucketer /\ bkargs = NoArgs /\ spectrum = <<>>
    /\ analyzer = NoAnalyzer /\ boost = 0 /\ ret = None
    /\ gc = NoGc /\ sensor = NoSensor /\ trace = <<>>
    /\ op = [name |-> "new", arg |-> <<>>]
    /\ panicked = FALSE

\* BiasedFilter::process(input)
bf_process(input) ==
    /\ ~panicked
    /\ calls < MaxSteps
    /\ bf' = [bf EXCEPT !.values =
                IF bf.kind = "filter"
                THEN BiasedProcess(bf.values, input, bf.neg, bf.pos)
                ELSE SensorBiasedProcess(bf.values, input, bf.neg, bf.pos)]
    /\ calls' = calls + 1
    /\ op' = [name |-> "bf_process", arg |-> input]
    /\ UNCHANGED <<bufVars, features, written, bkVars, anVars, gc, sensor, trace, panicked>>

NextBf == \E input \in BandVectors(2) : bf_process(input)

SpecBf == InitBf /\ [][NextBf]_vars

(* Properties of BiasedFilter (SpecBf) *)

\* C13: per band, BiasedFilter::process uses neg_params when
\* input[i] < value[i] and pos_params otherwise (equality included), and
\* sets value[i] to a * input[i] + b * value[i] with the coefficients of the
\* chosen set; in filter.rs and in the sensor's own BiasedFilter alike.
C13_NegBelowPosOtherwise ==
    [][op'.name = "bf_process" =>
        \A i \in 1..Len(bf.values) :
            LET x == op'.arg[i]
                v == bf.values[i]
                p == IF FLt(x, v) THEN bf.neg ELSE bf.pos
            IN  bf'.values[i] = FAdd(FMul(p.a, x), FMul(p.b, v))]_vars

----------------------------------------------------------------------------
(* GainController, gain_control.rs and frequency_sensor.rs *)

\* the clamp bounds of the update: 1e-6 below in both controllers, 1e6 above
\* in gain_control.rs and 1e8 above in frequency_sensor.rs
GainLo == F(1, -6)
GainHi == F(1, 6)
SensorGainHi == F(1, 8)

\* GainController::error of gain_control.rs
GcError(x) ==
    LET y == FMax(x, F(1, -7))
    IN  FClamp(IF FLt(y, One) THEN FSub(FDiv(One, y), One) ELSE FSub(One, y),
               F(-32, 0), F(32, 0))

\* GainController::log_error of frequency_sensor.rs
LogError(x) ==
    LET y == FAdd(F(1, -9), x)
        l == FLog2(FAbs(y))
    IN  FMul(FMul(FMul(FNeg(FSignum(y)), l), l), FSignum(l))

\* the match that ends the update, with upper bound hi
GainClamp(x, hi) == IF FGt(x, hi) THEN hi ELSE IF FLt(x, GainLo) THEN GainLo ELSE x

\* a control signal without the proportional term
ControlSignalNoProportional(p, e, err) ==
    FAdd(FMul(p.ki, err), FMul(p.kd, FSub(err, e)))

\* u = params.kp * e + params.ki * self.err[i] + params.kd * (self.err[i] - e)
ControlSignal(p, e, err) ==
    FAdd(FAdd(FMul(p.kp, e), FMul(p.ki, err)), FMul(p.kd, FSub(err, e)))

\* u = self.params.kp * e + self.params.ki * self.err[i]
SensorControlSignal(p, e, err) == FAdd(FMul(p.kp, e), FMul(p.ki, err))

\* GainController::new(size)
GainControllerNew(kind, size, params) ==
    [kind   |-> kind,
     values |-> [i \in 1..size |-> One],
     err    |-> [i \in 1..size |-> Zero],
     filter |-> [i \in 1..size |-> Zero],
     params |-> params,
     errors |-> <<>>]       \* history: the vector of errors e of every call so far

\* GainController::process of either file: the controller after the call and
\* the input as the call leaves it (scaled in place)
GainControllerProcess(g, input) ==
    LET n      == Len(input)
        scaled == [i \in 1..n |-> FMul(input[i], FMul(g.values[i], g.params.pre_gain))]
        filt   == FilterProcess(g.filter, scaled, g.params.filter_params)
        e      == [i \in 1..n |-> IF g.kind = "sensor" THEN LogError(filt[i])
                                                      ELSE GcError(filt[i])]
        err    == [i \in 1..n |-> FAdd(FMul(F(99, -2), g.err[i]), FMul(F(1, -2), e[i]))]
        u      == [i \in 1..n |-> IF g.kind = "sensor"
                                  THEN SensorControlSignal(g.params, e[i], err[i])
                                  ELSE ControlSignal(g.params, e[i], err[i])]
        hi     == IF g.kind = "sensor" THEN SensorGainHi ELSE GainHi
    IN  [gc    |-> [g EXCEPT !.values = [i \in 1..n |-> GainClamp(FAdd(g.values[i], u[i]), hi)],
                             !.err    = err,
                             !.filter = filt,
                             !.errors = Append(g.errors, e)],
         input |-> scaled]

\* Params::default() of gain_control.rs
GainParamsDefault ==
    [kp |-> F(1, -1), ki |-> F(1, -1), kd |-> F(1, -1), pre_gain |-> One,
     filter_params |-> FilterParamsNew(F(100, 0), One)]

\* the gain_control record of FrequencySensorParams::defaults()
SensorGainParamsDefault ==
    [kp |-> F(1, -1), ki |-> F(1, -1), kd |-> F(1, -1), pre_gain |-> F(65536, 0),
     filter_params |-> FilterParamsNew(F(1720, 0), One)]

\* the defaults, and a controller whose derivative gain outweighs the
\* proportional one
GainConfigs ==
    {GainParamsDefault, [GainParamsDefault EXCEPT !.ki = Zero, !.kd = One]}

\* the samples a band of a gain controller is fed: silence, the target level,
\* a loud sample, and the largest-magnitude finite sample of either sign
GainInputs == {Zero, One, F(1, 9), F(-3, 38)}

\* the most process calls made on one gain controller
MaxGcCalls == 3

InitGc ==
    /\ \/ \E params \in GainConfigs : gc = GainControllerNew("gain_control", 1, params)
       \/ gc = GainControllerNew("sensor", 1, SensorGainParamsDefault)
    /\ calls = 0
    /\ written = <<>> /\ features = NoFeatures
    /\ wb = WindowBufferNew(0) /\ fft_size = 0 /\ pushed = <<>> /\ out = <<>>
    /\ bucketer = NoBucketer /\ bkargs = NoArgs /\ spectrum = <<>>
    /\ analyzer = NoAnalyzer /\ boost = 0 /\ ret = None
    /\ bf = NoBf /\ sensor = NoSensor /\ trace = <<>>
    /\ op = [name |-> "new", arg |-> <<>>]
    /\ panicked = FALSE

\* GainController::process(input)
gc_process(input) ==
    /\ ~panicked
    /\ calls < MaxGcCalls
    /\ gc' = GainControllerProcess(gc, input).gc
    /\ calls' = calls + 1
    /\ op' = [name |-> "gc_process", arg |-> input]
    /\ UNCHANGED <<bufVars, features, written, bkVars, anVars, bf, sensor, trace, panicked>>

NextGc == \E input \in [1..1 -> GainInputs] : gc_process(input)

SpecGc == InitGc /\ [][NextGc]_vars

(* Properties of GainController (SpecGc) *)

\* C11: after construction and after every process call, whatever the
\* inputs, every gain lies in [1e-6, 1e6].
C11_GainWithinClampRange ==
    \A i \in 1..Len(gc.values) : FLe(GainLo, gc.values[i]) /\ FLe(gc.values[i], GainHi)

\* band i has seen the same nonzero error on every call so far
SteadyError(g, i) ==
    /\ g.errors /= <<>>
    /\ \A c \in 1..Len(g.errors) : g.errors[c][i] = g.errors[1][i]
    /\ g.errors[1][i] /= Zero /\ ~IsNaN(g.errors[1][i])

\* the gain of band i did not move away from the bound the error points to
TowardBound(g, h, i) ==
    IF FGt(h.errors[1][i], Zero) THEN FLe(g.values[i], h.values[i])
                                 ELSE FLe(h.values[i], g.values[i])

\* C12 (as stated): a band of the GainController of gain_control.rs that has
\* seen the same nonzero error on every call never steps away from the clamp
\* bound on the side of that error, for any (kp, ki, kd).
C12_MonotoneForAnyGains ==
    [][(op'.name = "gc_process" /\ gc.kind = "gain_control") =>
        \A i \in 1..Len(gc.values) :
            SteadyError(gc', i) => TowardBound(gc, gc', i)]_vars

\* C12 (amended): the same, for proportional, integral and derivative gains
\* that are not negative with kd <= kp, the defaults among them.
C12_MonotoneWhenDerivativeGainSmall ==
    [][(op'.name = "gc_process" /\ gc.kind = "gain_control"
          /\ FLe(Zero, gc.params.ki) /\ FLe(Zero, gc.params.kd)
          /\ FLe(gc.params.kd, gc.params.kp)) =>
        \A i \in 1..Len(gc.values) :
            SteadyError(gc', i) => TowardBound(gc, gc', i)]_vars

\* silence on every call: the error has been the same positive value three
\* times and the gain has grown each time
C12_Witness ==
    /\ op.name = "gc_process" /\ gc.kind = "gain_control"
    /\ gc.params = GainParamsDefault
    /\ Len(gc.errors) = 3 /\ SteadyError(gc, 1)
    /\ gc.errors[1][1] = F(32, 0)
    /\ FGt(gc.values[1], F(12, -1))

----------------------------------------------------------------------------
(* FrequencySensor, frequency_sensor.rs *)

\* FrequencySensorParams::defaults()
FrequencySensorParamsDefaults ==
    [amp_filter       |-> FilterParamsNew(F(8, 0), One),
     amp_feedback     |-> FilterParamsNew(F(200, 0), FNeg(One)),
     diff_filter      |-> FilterParamsNew(F(16, 0), One),
     diff_feedback    |-> FilterParamsNew(F(100, 0), F(-5, -2)),
     gain_control     |-> SensorGainParamsDefault,
     amp_offset       |-> Zero,
     preemphasis      |-> F(2, 0),
     sync             |-> F(1, -3),
     amp_scale        |-> One,
     diff_gain        |-> One,
     drag             |-> F(1, -3),
     pos_scale_filter |-> FilterParamsNew(F(100, 0), One),
     neg_scale_filter |-> FilterParamsNew(F(1000, 0), One)]

\* vec![0f32; size]
Zeros(size) == [i \in 1..size |-> Zero]

\* Features::new(size, length) with its f32 fields
SensorFeaturesNew(size, length) ==
    [amplitudes |-> [k \in 1..length |-> Zeros(size)],
     scales |-> Zeros(size), diff |-> Zeros(size), energy |-> Zeros(size),
     index |-> 0, length |-> length, size |-> size]

\* parameters set_params can install: every filter without memory, unit
\* pre-emphasis, doubled diff gain and amp scale, no sync and no drag
FrequencySensorParamsOther ==
    [amp_filter       |-> FilterParamsNew(Zero, One),
     amp_feedback     |-> FilterParamsNew(Zero, FNeg(One)),
     diff_filter      |-> FilterParamsNew(Zero, One),
     diff_feedback    |-> FilterParamsNew(Zero, F(-5, -2)),
     gain_control     |-> [SensorGainParamsDefault EXCEPT
                              !.pre_gain = One,
                              !.filter_params = FilterParamsNew(Zero, One)],
     amp_offset       |-> Zero,
     preemphasis      |-> One,
     sync             |-> Zero,
     amp_scale        |-> F(2, 0),
     diff_gain        |-> F(2, 0),
     drag             |-> Zero,
     pos_scale_filter |-> FilterParamsNew(Zero, One),
     neg_scale_filter |-> FilterParamsNew(Zero, One)]

\* the FilterParams copies FrequencySensor::new hands to its five filters
FilterCoefficients(params) ==
    [amp_filter       |-> params.amp_filter,
     amp_feedback     |-> params.amp_feedback,
     diff_filter      |-> params.diff_filter,
     diff_feedback    |-> params.diff_feedback,
     pos_scale_filter |-> params.pos_scale_filter,
     neg_scale_filter |-> params.neg_scale_filter]

\* FrequencySensor::new(size, length, params), without the features
FrequencySensorNew(size, params) ==
    [size            |-> size,
     params          |-> params,
     coeffs          |-> FilterCoefficients(params),
     gain_controller |-> GainControllerNew("sensor", size, params.gain_control),
     amp_filter      |-> Zeros(size),
     amp_feedback    |-> Zeros(size),
     diff_filter     |-> Zeros(size),
     diff_feedback   |-> Zeros(size),
     scale_filter    |-> Zeros(size),
     scale_buffer    |-> Zeros(size),
     diff_buffer     |-> Zeros(size),
     emphasised      |-> Zeros(size),   \* history: the input as gain control received it
     snapshot        |-> Zeros(size),   \* history: diff_buffer right after copy_from_slice
     presync         |-> Zeros(size)]   \* history: energy as apply_sync received it

\* FrequencySensor::apply_preemphasis
ApplyPreemphasis(s, input) ==
    LET incr == FDiv(FSub(s.params.preemphasis, One), F(s.size, 0))
    IN  [i \in 1..s.size |-> FMul(input[i], FAdd(One, FMul(F(i - 1, 0), incr)))]

\* a filtering stage that subtracts from amp_filter's value of the previous call
ApplyFiltersStaleAmp(s, input) ==
    LET p    == s.coeffs
        diff == [i \in 1..s.size |-> FSub(s.amp_filter[i], input[i])]
    IN  [s EXCEPT !.snapshot      = input,
                  !.amp_filter    = FilterProcess(s.amp_filter, input, p.amp_filter),
                  !.amp_feedback  = FilterProcess(s.amp_feedback, input, p.amp_feedback),
                  !.diff_buffer   = diff,
                  !.diff_filter   = FilterProcess(s.diff_filter, diff, p.diff_filter),
                  !.diff_feedback = FilterProcess(s.diff_feedback, diff, p.diff_feedback)]

\* FrequencySensor::apply_filters
ApplyFilters(s, input) ==
    LET p    == s.coeffs
        amp  == FilterProcess(s.amp_filter, input, p.amp_filter)
        diff == [i \in 1..s.size |-> FSub(amp[i], input[i])]
    IN  [s EXCEPT !.snapshot      = input,
                  !.amp_filter    = amp,
                  !.amp_feedback  = FilterProcess(s.amp_feedback, input, p.amp_feedback),
                  !.diff_buffer   = diff,
                  !.diff_filter   = FilterProcess(s.diff_filter, diff, p.diff_filter),
                  !.diff_feedback = FilterProcess(s.diff_feedback, diff, p.diff_feedback)]

\* the amplitude vector apply_effects writes
EffectsAmp(s) ==
    [i \in 1..s.size |->
        FAdd(s.params.amp_offset,
             FMul(s.params.amp_scale, FAdd(s.amp_filter[i], s.amp_feedback[i])))]

\* an effects stage that writes the amplitude vector into every slot of the ring
SensorApplyEffectsAllSlots(s, f) ==
    LET diff == [i \in 1..s.size |->
                    FMul(s.params.diff_gain, FAdd(s.diff_filter[i], s.diff_feedback[i]))]
    IN  [IncrementIndex(f) EXCEPT
            !.amplitudes = [k \in 1..f.length |-> EffectsAmp(s)],
            !.diff   = diff,
            !.energy = [i \in 1..s.size |->
                           FSub(FAdd(f.energy[i], diff[i]), s.params.drag)]]

\* FrequencySensor::apply_effects, for a ring of length >= 1
SensorApplyEffects(s, f) ==
    LET diff == [i \in 1..s.size |->
                    FMul(s.params.diff_gain, FAdd(s.diff_filter[i], s.diff_feedback[i]))]
    IN  [ApplyEffects(f, EffectsAmp(s)) EXCEPT
            !.diff   = diff,
            !.energy = [i \in 1..s.size |->
                           FSub(FAdd(f.energy[i], diff[i]), s.params.drag)]]

\* FrequencySensor::signed_square_diff
SignedSquareDiff(a, b) ==
    LET diff == FSub(a, b) IN FMul(FMul(FSignum(diff), diff), diff)

RECURSIVE FSum(_, _)
\* v.iter().take(n).sum::<f32>()
FSum(v, n) == IF n = 0 THEN Zero ELSE FAdd(FSum(v, n - 1), v[n])

\* energy.iter().sum::<f32>() / size_f
Mean(energy, size) == FDiv(FSum(energy, size), F(size, 0))

RECURSIVE SyncLoop(_, _, _, _, _)
\* the coupling loop of apply_sync from band i on, updating energy in place
SyncLoop(energy, i, mean, sync, size) ==
    IF i > size THEN energy
    ELSE LET e1 == IF i > 1
                   THEN FAdd(energy[i], FMul(sync, SignedSquareDiff(energy[i - 1], energy[i])))
                   ELSE energy[i]
             e2 == IF i < size
                   THEN FAdd(e1, FMul(sync, SignedSquareDiff(energy[i + 1], e1)))
                   ELSE e1
             e3 == FAdd(e2, FMul(FDiv(sync, F(size, 0)), SignedSquareDiff(mean, e2)))
         IN  SyncLoop([energy EXCEPT ![i] = e3], i + 1, mean, sync, size)

\* the neighbour and cross-band-mean coupling of apply_sync
SyncCoupling(energy, sync, size) == SyncLoop(energy, 1, Mean(energy, size), sync, size)

\* 2. * PI
TwoPi == F(6283, -3)

\* the tail of apply_sync: shift every band by 2 pi once the mean and all
\* bands are beyond it
SyncWrap(energy, size) ==
    LET mean == Mean(energy, size)
    IN  IF FLt(mean, FNeg(TwoPi))
        THEN IF \E i \in 1..size : FGt(energy[i], FNeg(TwoPi))
             THEN energy
             ELSE [i \in 1..size |-> FAdd(TwoPi, energy[i])]
        ELSE IF FGt(mean, TwoPi)
        THEN IF \E i \in 1..size : FLt(energy[i], TwoPi)
             THEN energy
             ELSE [i \in 1..size |-> FSub(energy[i], TwoPi)]
        ELSE energy

\* FrequencySensor::apply_sync
ApplySync(energy, sync, size) == SyncWrap(SyncCoupling(energy, sync, size), size)

\* the floor of apply_value_scaling: if vsh < 0.001 { vsh = 0.001 }
ScaleFloor(vsh) == IF FLt(vsh, F(1, -3)) THEN F(1, -3) ELSE vsh

\* FrequencySensor::apply_value_scaling: the sensor and the scales
ApplyValueScaling(s, f) ==
    LET amp == GetAmplitudes(f, 0)
        buf == [i \in 1..s.size |-> FAbs(FMul(f.scales[i], FSub(amp[i], One)))]
        flt == SensorBiasedProcess(s.scale_filter, buf,
                                   s.coeffs.neg_scale_filter, s.coeffs.pos_scale_filter)
        vsh == [i \in 1..s.size |-> ScaleFloor(flt[i])]
    IN  [sensor |-> [s EXCEPT !.scale_buffer = buf, !.scale_filter = vsh],
         scales |-> [i \in 1..s.size |-> FDiv(One, vsh[i])]]

\* the samples a band of the sensor is fed: silence, the target level, the
\* NaN an empty bucket averages to, and a sample that overflows under pre_gain
SensorInputs == {Zero, One, NaNf, F(1, 35)}

\* the band vectors process is called with: one sample in every band, a
\* spectrum whose last bucket is empty, and a vector one band short
SensorFrames(size) ==
    {[i \in 1..size |-> x] : x \in SensorInputs}
        \cup {[i \in 1..size |-> IF i = size THEN NaNf ELSE One],
              [i \in 1..(size - 1) |-> One]}

\* the stages of FrequencySensor::process, in the order it calls them
Stages == <<"preemphasis", "gain_control", "filters", "effects", "sync", "value_scaling">>

InitSens ==
    /\ \E size \in 1..MaxBands, length \in 0..MaxLength :
         /\ sensor = FrequencySensorNew(size, FrequencySensorParamsDefaults)
         /\ features = SensorFeaturesNew(size, length)
    /\ calls = 0
    /\ written = <<>>
    /\ wb = WindowBufferNew(0) /\ fft_size = 0 /\ pushed = <<>> /\ out = <<>>
    /\ bucketer = NoBucketer /\ bkargs = NoArgs /\ spectrum = <<>>
    /\ analyzer = NoAnalyzer /\ boost = 0 /\ ret = None
    /\ gc = NoGc /\ bf = NoBf /\ trace = <<>>
    /\ op = [name |-> "new", arg |-> <<>>]
    /\ panicked = FALSE

\* FrequencySensor::process(input)
sensor_process(input) ==
    /\ ~panicked
    /\ calls < MaxSteps
    /\ calls' = calls + 1
    /\ op' = [name |-> "sensor_process", arg |-> input]
    /\ IF Len(input) < sensor.size
       THEN \* input[i] is out of bounds in apply_preemphasis
            /\ panicked' = TRUE
            /\ trace' = SubSeq(Stages, 1, 1)
            /\ UNCHANGED <<sensor, features>>
       ELSE \E emph \in {ApplyPreemphasis(sensor, input)} :
            \E g \in {GainControllerProcess(sensor.gain_controller, emph)} :
            \E s2 \in {ApplyFilters([sensor EXCEPT !.emphasised = emph,
                                                   !.gain_controller = g.gc], g.input)} :
                IF IncrementIndexPanics(features)
                THEN \* self.index %= self.length in apply_effects
                     /\ panicked' = TRUE
                     /\ trace' = SubSeq(Stages, 1, 4)
                     /\ sensor' = s2
                     /\ features' = [features EXCEPT !.index = @ + 1]
                ELSE \E f1 \in {SensorApplyEffects(s2, features)} :
                     \E energy \in {ApplySync(f1.energy, s2.params.sync, s2.size)} :
                     \E v \in {ApplyValueScaling(s2, [f1 EXCEPT !.energy = energy])} :
                         /\ sensor' = [v.sensor EXCEPT !.presync = f1.energy]
                         /\ features' = [f1 EXCEPT !.energy = energy, !.scales = v.scales]
                         /\ trace' = Stages
                         /\ UNCHANGED panicked
    /\ UNCHANGED <<bufVars, written, bkVars, anVars, gc, bf>>

\* a set_params that also rebuilds the filters and the gain controller
SetParamsRebuilding(s, fp) ==
    [s EXCEPT !.params = fp, !.coeffs = FilterCoefficients(fp),
              !.gain_controller.params = fp.gain_control]

\* FrequencySensor::set_params: self.params = fp
SetParams(s, fp) == [s EXCEPT !.params = fp]

\* the parameter records set_params is called with
ParamChoices == {FrequencySensorParamsDefaults, FrequencySensorParamsOther}

\* FrequencySensor::set_params(fp); Analyzer::set_params(fp) forwards to it
set_params(fp) ==
    /\ ~panicked
    /\ sensor' = SetParams(sensor, fp)
    /\ op' = [name |-> "set_params", arg |-> fp]
    /\ UNCHANGED <<bufVars, features, calls, written, bkVars, anVars, gc, bf, trace, panicked>>

NextSens ==
    \/ \E input \in SensorFrames(sensor.size) : sensor_process(input)
    \/ \E fp \in ParamChoices : set_params(fp)

SpecSens == InitSens /\ [][NextSens]_vars

(* Properties of FrequencySensor (SpecSens) *)

\* the last call ran all six stages
Completed == op.name = "sensor_process" /\ ~panicked

\* C14: the synchronization step never wraps the energy vector: after the
\* step every energy[i] is its value before the step plus only the neighbour
\* and cross-band-mean coupling terms.
C14_SyncNeverWraps ==
    Completed =>
        features.energy = SyncCoupling(sensor.presync, sensor.params.sync, sensor.size)

\* C17: the snapshot subtracted from amp_filter's value holds the band
\* vector as it was before gain control was applied in that call.
C17_SnapshotIsPreGainControlInput ==
    (op.name = "sensor_process" /\ Len(trace) >= 3) =>
        sensor.snapshot = sensor.emphasised

\* C18: the stages of one process call run in the order pre-emphasis, gain
\* control, filtering, effects, synchronization, value scaling; gain control
\* works on the pre-emphasised input and filtering on its output; the
\* snapshot is taken of the vector amp_filter is then updated with, and only
\* then diff_buffer[i] = amp_filter.values[i] - snapshot[i] is formed and fed
\* to diff_filter and diff_feedback; effects read the updated filters.
C18_StagesInOrderAndTwoPhaseDiff ==
    [][op'.name = "sensor_process" =>
        /\ trace' = SubSeq(Stages, 1, Len(trace'))
        /\ ~panicked' => trace' = Stages
        /\ Len(trace') >= 3 =>
            LET p == sensor.coeffs
                g == GainControllerProcess(sensor.gain_controller, sensor'.emphasised)
            IN  /\ sensor'.emphasised = ApplyPreemphasis(sensor, op'.arg)
                /\ sensor'.gain_controller = g.gc
                /\ sensor'.snapshot = g.input
                /\ sensor'.amp_filter =
                       FilterProcess(sensor.amp_filter, sensor'.snapshot, p.amp_filter)
                /\ sensor'.amp_feedback =
                       FilterProcess(sensor.amp_feedback, sensor'.snapshot, p.amp_feedback)
                /\ \A i \in 1..sensor.size :
                       sensor'.diff_buffer[i] =
                           FSub(sensor'.amp_filter[i], sensor'.snapshot[i])
                /\ sensor'.diff_filter =
                       FilterProcess(sensor.diff_filter, sensor'.diff_buffer, p.diff_filter)
                /\ sensor'.diff_feedback =
                       FilterProcess(sensor.diff_feedback, sensor'.diff_buffer, p.diff_feedback)
        /\ ~panicked' =>
            /\ GetAmplitudes(features', 0) = EffectsAmp(sensor')
            /\ features'.energy =
                   ApplySync(sensor'.presync, sensor.params.sync, sensor.size)
            /\ \A i \in 1..sensor.size :
                   sensor'.scale_buffer[i] =
                       FAbs(FMul(features.scales[i],
                                 FSub(GetAmplitudes(features', 0)[i], One)))]_vars

\* a second call on two bands: amp_filter has moved away from the value the
\* first call left, and diff_buffer is the new value minus the snapshot
C18_Witness ==
    /\ Completed /\ calls = 2 /\ sensor.size = 2 /\ trace = Stages
    /\ op.arg = <<One, One>>
    /\ \A i \in 1..2 :
          /\ IsFin(sensor.amp_filter[i]) /\ sensor.amp_filter[i].m > 0
          /\ sensor.diff_buffer[i] = FSub(sensor.amp_filter[i], sensor.snapshot[i])
          /\ sensor.diff_buffer[i].m < 0
          /\ IsFin(sensor.diff_filter[i]) /\ sensor.diff_filter[i].m < 0

\* C19: after every process call, for every band the scale filter's stored
\* value is at least 0.001 and scales[i] is its reciprocal, so
\* 0 < scales[i] <= 1000.
C19_ScalesFlooredReciprocal ==
    Completed =>
        \A i \in 1..sensor.size :
            /\ FLe(F(1, -3), sensor.scale_filter[i])
            /\ features.scales[i] = FDiv(One, sensor.scale_filter[i])
            /\ FLt(Zero, features.scales[i])
            /\ FLe(features.scales[i], F(1000, 0))

\* C21: a process call that runs to completion advances the ring index by one
\* modulo length and overwrites exactly one amplitude slot, the one at the
\* new index; the other length - 1 slots keep their vectors.
C21_OneSlotOverwrittenPerCall ==
    [][(op'.name = "sensor_process" /\ ~panicked') =>
        /\ features'.length = features.length
        /\ features'.index = (features.index + 1) % features.length
        /\ \A k \in 1..features.length :
              features'.amplitudes[k] =
                  IF k = features'.index + 1 THEN EffectsAmp(sensor')
                                             ELSE features.amplitudes[k]]_vars

\* a ring of two slots after its second call: the index has wrapped to 0,
\* slot 0 holds this call's vector and slot 1 still holds the first call's
C21_Witness ==
    /\ Completed /\ calls = 2 /\ features.length = 2 /\ features.index = 0
    /\ features.amplitudes[1] = EffectsAmp(sensor)
    /\ features.amplitudes[2] /= features.amplitudes[1]
    /\ features.amplitudes[2] /= Zeros(sensor.size)
    /\ \A i \in 1..sensor.size : IsFin(features.amplitudes[2][i])

\* the coefficients the sensor was constructed with
Built == FrequencySensorParamsDefaults

\* C22: set_params changes only the sensor's own parameter record: the
\* coefficients held by the four filters, the scale filter and the gain
\* controller, all filter and gain state and the Features ring stay as they
\* are, and later process calls still filter with the construction-time
\* coefficients.
C22_SetParamsLeavesFiltersAlone ==
    [][/\ op'.name = "set_params" =>
            /\ sensor' = [sensor EXCEPT !.params = op'.arg]
            /\ features' = features
       /\ (op'.name = "sensor_process" /\ Len(trace') >= 3) =>
            /\ sensor'.coeffs = FilterCoefficients(Built)
            /\ sensor'.gain_controller.params = Built.gain_control
            /\ sensor'.gain_controller.filter =
                   FilterProcess(sensor.gain_controller.filter, sensor'.snapshot,
                                 Built.gain_control.filter_params)
            /\ sensor'.amp_filter =
                   FilterProcess(sensor.amp_filter, sensor'.snapshot, Built.amp_filter)
            /\ sensor'.amp_feedback =
                   FilterProcess(sensor.amp_feedback, sensor'.snapshot, Built.amp_feedback)
            /\ sensor'.diff_filter =
                   FilterProcess(sensor.diff_filter, sensor'.diff_buffer, Built.diff_filter)
            /\ sensor'.diff_feedback =
                   FilterProcess(sensor.diff_feedback, sensor'.diff_buffer, Built.diff_feedback)
       /\ (op'.name = "sensor_process" /\ ~panicked') =>
            \A i \in 1..sensor.size :
                sensor'.scale_filter[i] =
                    ScaleFloor(SensorBiasedProcess(sensor.scale_filter, sensor'.scale_buffer,
                                                   Built.neg_scale_filter,
                                                   Built.pos_scale_filter)[i])]_vars

\* the first process call after set_params installed other parameters:
\* amp_filter moved by the coefficient it was built with, not the new one
C22_Witness ==
    /\ Completed /\ calls = 1 /\ sensor.params = FrequencySensorParamsOther
    /\ sensor.params /= Built
    /\ IsFin(sensor.snapshot[1]) /\ sensor.snapshot[1] /= Zero
    /\ sensor.amp_filter[1] = FilterStep(Built.amp_filter, sensor.snapshot[1], Zero)
    /\ sensor.amp_filter[1] /=
           FilterStep(FrequencySensorParamsOther.amp_filter, sensor.snapshot[1], Zero)

====
